---- MODULE Spec2Model ----
(***************************************************************************)
(* Model of torrent_client.py: the start-up dependency check, the          *)
(* provider searches, the aggregation / sort / display of the results and  *)
(* the selection loop that hands a magnet link to the system.              *)
(***************************************************************************)
EXTENDS Integers, Sequences, FiniteSets, TLC

\* ---------------------------------------------------------------- bounds
MaxItems == 2      \* items / rows in one provider response
MaxSeed == 2       \* seeder counts range over 0..MaxSeed
MaxPrompts == 2    \* iterations of the selection loop that are explored

\* ------------------------------------------------------- program constants
REQUIRED_PACKAGES == <<"requests", "beautifulsoup4", "rich", "cloudscraper">>

MinCols == 6

\* top-level module names the interpreter may or may not be able to find
ModuleNames == {"requests", "bs4", "rich", "cloudscraper"}

VARIABLES
    pc,                \* position of the script
    importable,        \* environment: module names find_spec can locate
    i,                 \* check_dependencies: index into REQUIRED_PACKAGES
    missing_packages,  \* check_dependencies: local list
    imported,          \* third-party modules imported so far
    providers,         \* main: list of constructed providers (by name)
    k,                 \* main: index of the provider being queried
    all_results,       \* main: aggregated TorrentResult list
    table,             \* rows added to the rich table, as printed
    requests,          \* network requests issued so far
    lastCall,          \* the last provider call: response seen, value returned
    printed,           \* kinds of message printed so far
    opened,            \* arguments open_magnet_link was called with
    prompts,           \* number of Prompt.ask calls so far
    exit_status        \* <<>> while running, <<[code, by]>> once terminated

vars == <<pc, importable, i, missing_packages, imported, providers, k,
          all_results, table, requests, lastCall, printed, opened, prompts,
          exit_status>>

\* ----------------------------------------------------------------- helpers
Range(s) == {s[n] : n \in 1..Len(s)}

SeqsUpTo(n, S) == UNION {[1..m -> S] : m \in 0..n}

Count(x, s) == Cardinality({n \in 1..Len(s) : s[n] = x})

IsPermutation(a, b) ==
    /\ Len(a) = Len(b)
    /\ \A x \in Range(a) \cup Range(b) : Count(x, a) = Count(x, b)

\* ---------------------------------------------------------- data structures
TorrentResult(title, seeders, magnet_link, source) ==
    [title |-> title, seeders |-> seeders, magnet_link |-> magnet_link,
     source |-> source]

\* the magnet_link field holds either a magnet link or a detail page URL
MagnetLink(source, title) == [kind |-> "magnet", src |-> source, of |-> title]
DetailUrl(title)          == [kind |-> "detail", src |-> "1337x", of |-> title]
None                      == [kind |-> "none", src |-> "", of |-> 0]

NoCall == [op |-> "none", provider |-> "", response |-> "", ret |-> <<>>,
           link |-> None, raised |-> FALSE, printed |-> {}, nreq |-> 0]

\* ------------------------------------------------------ check_dependencies
ImportNameVerbatim(package_name) == package_name

ImportName(package_name) ==
    IF package_name = "beautifulsoup4" THEN "bs4" ELSE package_name

find_spec(import_name) == import_name \in importable

\* --------------------------------------------------------------- responses
TPBResponses ==
    {[kind |-> kd, items |-> <<>>] :
        kd \in {"request_error", "no_results", "malformed"}}
    \cup {[kind |-> "data", items |-> s] : s \in SeqsUpTo(MaxItems, 0..MaxSeed)}

Rows == {[cols |-> 0, seeders |-> 0]}
        \cup {[cols |-> MinCols, seeders |-> s] : s \in 0..MaxSeed}

X1337Responses ==
    {[kind |-> kd, items |-> <<>>] :
        kd \in {"request_error", "no_table", "malformed"}}
    \cup {[kind |-> "table", items |-> s] : s \in SeqsUpTo(MaxItems, Rows)}

DetailResponses ==
    {[kind |-> kd, href |-> None] :
        kd \in {"request_error", "no_anchor", "unexpected"}}
    \cup {[kind |-> "page", href |-> MagnetLink("1337x", t)] : t \in 1..MaxItems}

\* ------------------------------------------------------------ provider code
\* Each operator gives what one call does: the value returned, whether an
\* exception leaves the call, what it prints and the requests it issues.

ThePirateBay_search_raising(resp) ==
    IF resp.kind \in {"request_error", "malformed"}
    THEN [ret |-> <<>>, raised |-> TRUE, printed |-> {},
          reqs |-> <<"apibay">>]
    ELSE [ret |-> [n \in 1..Len(resp.items) |->
                     TorrentResult(n, resp.items[n],
                                   MagnetLink("ThePirateBay", n),
                                   "ThePirateBay")],
          raised |-> FALSE, printed |-> {}, reqs |-> <<"apibay">>]

ThePirateBay_search(resp) ==
    CASE resp.kind = "request_error" ->
            [ret |-> <<>>, raised |-> FALSE,
             printed |-> {"error_searching"}, reqs |-> <<"apibay">>]
      [] resp.kind = "no_results" ->
            [ret |-> <<>>, raised |-> FALSE, printed |-> {},
             reqs |-> <<"apibay">>]
      [] resp.kind = "malformed" ->
            [ret |-> <<>>, raised |-> TRUE, printed |-> {},
             reqs |-> <<"apibay">>]
      [] OTHER ->
            [ret |-> [n \in 1..Len(resp.items) |->
                        TorrentResult(n, resp.items[n],
                                      MagnetLink("ThePirateBay", n),
                                      "ThePirateBay")],
             raised |-> FALSE, printed |-> {}, reqs |-> <<"apibay">>]

RECURSIVE ScrapeRows(_, _)
ScrapeRows(rows, n) ==
    IF n = 0 THEN <<>>
    ELSE IF rows[n].cols < MinCols
         THEN ScrapeRows(rows, n - 1)
         ELSE Append(ScrapeRows(rows, n - 1),
                     TorrentResult(n, rows[n].seeders, DetailUrl(n), "1337x"))

OneThreeThreeSevenX_search(resp) ==
    CASE resp.kind = "request_error" ->
            [ret |-> <<>>, raised |-> FALSE,
             printed |-> {"error_searching"}, reqs |-> <<"search_page">>]
      [] resp.kind = "no_table" ->
            [ret |-> <<>>, raised |-> FALSE, printed |-> {},
             reqs |-> <<"search_page">>]
      [] resp.kind = "malformed" ->
            [ret |-> <<>>, raised |-> TRUE, printed |-> {},
             reqs |-> <<"search_page">>]
      [] OTHER ->
            [ret |-> ScrapeRows(resp.items, Len(resp.items)),
             raised |-> FALSE, printed |-> {}, reqs |-> <<"search_page">>]

get_magnet_retrying(resp) ==
    CASE resp.kind = "request_error" ->
            [link |-> None, raised |-> FALSE,
             printed |-> {"error_fetching_magnet"},
             reqs |-> <<"detail_page", "detail_page">>]
      [] resp.kind = "no_anchor" ->
            [link |-> None, raised |-> FALSE, printed |-> {},
             reqs |-> <<"detail_page">>]
      [] resp.kind = "unexpected" ->
            [link |-> None, raised |-> TRUE, printed |-> {},
             reqs |-> <<"detail_page">>]
      [] OTHER ->
            [link |-> resp.href, raised |-> FALSE, printed |-> {},
             reqs |-> <<"detail_page">>]

get_magnet(resp) ==
    CASE resp.kind = "request_error" ->
            [link |-> None, raised |-> FALSE,
             printed |-> {"error_fetching_magnet"},
             reqs |-> <<"detail_page">>]
      [] resp.kind = "no_anchor" ->
            [link |-> None, raised |-> FALSE, printed |-> {},
             reqs |-> <<"detail_page">>]
      [] resp.kind = "unexpected" ->
            [link |-> None, raised |-> TRUE, printed |-> {},
             reqs |-> <<"detail_page">>]
      [] OTHER ->
            [link |-> resp.href, raised |-> FALSE, printed |-> {},
             reqs |-> <<"detail_page">>]

\* ----------------------------------------------------------- main: sorting
\* list.sort(key=seeders, reverse=True): stable, descending
RECURSIVE InsertBySeeders(_, _)
InsertBySeeders(x, s) ==
    IF s = <<>> THEN <<x>>
    ELSE IF s[Len(s)].seeders >= x.seeders
         THEN Append(s, x)
         ELSE Append(InsertBySeeders(x, SubSeq(s, 1, Len(s) - 1)), s[Len(s)])

RECURSIVE SortStable(_)
SortStable(s) ==
    IF s = <<>> THEN <<>>
    ELSE InsertBySeeders(s[Len(s)], SortStable(SubSeq(s, 1, Len(s) - 1)))

SortUnsorted(s) == s

SortBySeeders(s) == SortStable(s)

TableRows(results) ==
    [n \in 1..Len(results) |-> [index |-> n, result |-> results[n]]]

\* ------------------------------------------- main: after a 1337x selection
\* what main does with the value get_magnet returned (lines 358-367)
AfterGetMagnetFallThrough(selected, magnet) ==
    [open |-> TRUE,
     link |-> IF magnet = None THEN selected.magnet_link ELSE magnet]

AfterGetMagnet(selected, magnet) ==
    IF magnet # None
    THEN [open |-> TRUE, link |-> magnet]
    ELSE [open |-> FALSE, link |-> selected.magnet_link]

\* -------------------------------------------------------------------- Init
Init ==
    /\ pc = "check_dependencies"
    /\ importable \in SUBSET ModuleNames
    /\ i = 1
    /\ missing_packages = <<>>
    /\ imported = {}
    /\ providers = <<>>
    /\ k = 1
    /\ all_results = <<>>
    /\ table = <<>>
    /\ requests = <<>>
    /\ lastCall = NoCall
    /\ printed = {}
    /\ opened = <<>>
    /\ prompts = 0
    /\ exit_status = <<>>

\* ----------------------------------------------------------------- actions
\* one iteration of the loop over REQUIRED_PACKAGES
CheckPackage ==
    /\ pc = "check_dependencies"
    /\ i <= Len(REQUIRED_PACKAGES)
    /\ missing_packages' =
          IF find_spec(ImportName(REQUIRED_PACKAGES[i]))
          THEN missing_packages
          ELSE Append(missing_packages, REQUIRED_PACKAGES[i])
    /\ i' = i + 1
    /\ UNCHANGED <<pc, importable, imported, providers, k, all_results, table,
                   requests, lastCall, printed, opened, prompts, exit_status>>

\* some package is missing: print the instructions and sys.exit(1)
CheckDependenciesExit ==
    /\ pc = "check_dependencies"
    /\ i > Len(REQUIRED_PACKAGES)
    /\ missing_packages # <<>>
    /\ printed' = printed \cup {"missing_dependencies"}
    /\ exit_status' = <<[code |-> 1, by |-> "check_dependencies"]>>
    /\ pc' = "exited"
    /\ UNCHANGED <<importable, i, missing_packages, imported, providers, k,
                   all_results, table, requests, lastCall, opened, prompts>>

CheckDependenciesReturn ==
    /\ pc = "check_dependencies"
    /\ i > Len(REQUIRED_PACKAGES)
    /\ missing_packages = <<>>
    /\ pc' = "imports"
    /\ UNCHANGED <<importable, i, missing_packages, imported, providers, k,
                   all_results, table, requests, lastCall, printed, opened,
                   prompts, exit_status>>

\* the imports that follow the dependency check
MainImports ==
    /\ pc = "imports"
    /\ imported' = {"requests", "cloudscraper", "bs4", "rich"}
    /\ pc' = "main"
    /\ UNCHANGED <<importable, i, missing_packages, providers, k, all_results,
                   table, requests, lastCall, printed, opened, prompts,
                   exit_status>>

\* parse_args with no query: argparse reports the usage error and exits
ArgparseError ==
    /\ pc = "main"
    /\ printed' = printed \cup {"usage"}
    /\ exit_status' = <<[code |-> 2, by |-> "argparse"]>>
    /\ pc' = "exited"
    /\ UNCHANGED <<importable, i, missing_packages, imported, providers, k,
                   all_results, table, requests, lastCall, opened, prompts>>

\* parse_args succeeds; the providers are constructed
MainStart ==
    /\ pc = "main"
    /\ printed' = printed \cup {"searching_for"}
    /\ providers' = <<"ThePirateBay", "1337x">>
    /\ all_results' = <<>>
    /\ k' = 1
    /\ pc' = "search"
    /\ UNCHANGED <<importable, i, missing_packages, imported, table, requests,
                   lastCall, opened, prompts, exit_status>>

ProviderResponses(name) ==
    IF name = "ThePirateBay" THEN TPBResponses ELSE X1337Responses

ProviderSearch(name, resp) ==
    IF name = "ThePirateBay" THEN ThePirateBay_search(resp)
    ELSE OneThreeThreeSevenX_search(resp)

\* one iteration of "for provider in providers"
QueryProvider ==
    /\ pc = "search"
    /\ k <= Len(providers)
    /\ \E resp \in ProviderResponses(providers[k]) :
          LET r == ProviderSearch(providers[k], resp) IN
          /\ all_results' = IF r.raised THEN all_results
                            ELSE all_results \o r.ret
          /\ printed' = printed \cup r.printed \cup
                        (IF r.raised THEN {"failed_to_get_results"} ELSE {})
          /\ requests' = requests \o r.reqs
          /\ lastCall' = [op |-> "search", provider |-> providers[k],
                          response |-> resp.kind, ret |-> r.ret,
                          link |-> None, raised |-> r.raised,
                          printed |-> r.printed, nreq |-> Len(r.reqs)]
    /\ k' = k + 1
    /\ UNCHANGED <<pc, importable, i, missing_packages, imported, providers,
                   table, opened, prompts, exit_status>>

\* "if not all_results": main returns and the script ends
NoResults ==
    /\ pc = "search"
    /\ k > Len(providers)
    /\ all_results = <<>>
    /\ printed' = printed \cup {"no_results_found"}
    /\ exit_status' = <<[code |-> 0, by |-> "main"]>>
    /\ pc' = "exited"
    /\ UNCHANGED <<importable, i, missing_packages, imported, providers, k,
                   all_results, table, requests, lastCall, opened, prompts>>

\* sort, build the table and print it
Display ==
    /\ pc = "search"
    /\ k > Len(providers)
    /\ all_results # <<>>
    /\ all_results' = SortBySeeders(all_results)
    /\ table' = TableRows(all_results')
    /\ printed' = printed \cup {"table"}
    /\ pc' = "prompt"
    /\ UNCHANGED <<importable, i, missing_packages, imported, providers, k,
                   requests, lastCall, opened, prompts, exit_status>>

\* the answer is 'q', or Prompt.ask is interrupted
PromptQuit ==
    /\ pc = "prompt"
    /\ prompts < MaxPrompts
    /\ prompts' = prompts + 1
    /\ printed' = printed \cup {"aborted"}
    /\ exit_status' = <<[code |-> 0, by |-> "main"]>>
    /\ pc' = "exited"
    /\ UNCHANGED <<importable, i, missing_packages, imported, providers, k,
                   all_results, table, requests, lastCall, opened>>

\* the answer is not a number (ValueError) or is out of range
PromptInvalid ==
    /\ pc = "prompt"
    /\ prompts < MaxPrompts
    /\ prompts' = prompts + 1
    /\ \E msg \in {"invalid_input", "invalid_index"} :
          printed' = printed \cup {msg}
    /\ UNCHANGED <<pc, importable, i, missing_packages, imported, providers, k,
                   all_results, table, requests, lastCall, opened,
                   exit_status>>

\* a valid index whose result does not come from 1337x
PromptSelectDirect ==
    /\ pc = "prompt"
    /\ prompts < MaxPrompts
    /\ \E choice \in 0..(Len(all_results) - 1) :
          LET selected_torrent == all_results[choice + 1] IN
          /\ selected_torrent.source # "1337x"
          /\ opened' = Append(opened, selected_torrent.magnet_link)
    /\ prompts' = prompts + 1
    /\ \E outcome \in {"sent_to_client", "unsupported_os", "could_not_open"} :
          printed' = printed \cup {"attempting_to_open", outcome}
    /\ exit_status' = <<[code |-> 0, by |-> "main"]>>
    /\ pc' = "exited"
    /\ UNCHANGED <<importable, i, missing_packages, imported, providers, k,
                   all_results, table, requests, lastCall>>

\* a valid index whose result comes from 1337x: fetch the magnet link first
PromptSelect1337x ==
    /\ pc = "prompt"
    /\ prompts < MaxPrompts
    /\ prompts' = prompts + 1
    /\ \E choice \in 0..(Len(all_results) - 1) :
        LET selected_torrent == all_results[choice + 1] IN
        /\ selected_torrent.source = "1337x"
        /\ IF \E n \in 1..Len(providers) : providers[n] = "1337x"
           THEN \E resp \in DetailResponses :
                LET r == get_magnet(resp)
                    after == AfterGetMagnet(selected_torrent, r.link)
                IN
                /\ requests' = requests \o r.reqs
                /\ lastCall' = [op |-> "get_magnet", provider |-> "1337x",
                                response |-> resp.kind, ret |-> <<>>,
                                link |-> r.link, raised |-> r.raised,
                                printed |-> r.printed, nreq |-> Len(r.reqs)]
                /\ IF r.raised
                   THEN \* not caught in main: the top-level handler exits
                        /\ printed' = printed \cup r.printed
                                      \cup {"unexpected_error"}
                        /\ exit_status' = <<[code |-> 1, by |-> "top_level"]>>
                        /\ pc' = "exited"
                        /\ UNCHANGED <<all_results, opened>>
                   ELSE IF after.open
                   THEN /\ all_results' =
                              [all_results EXCEPT
                                  ![choice + 1].magnet_link = after.link]
                        /\ opened' = Append(opened, after.link)
                        /\ \E outcome \in {"sent_to_client", "unsupported_os",
                                           "could_not_open"} :
                              printed' = printed \cup r.printed
                                   \cup {"attempting_to_open", outcome}
                        /\ exit_status' = <<[code |-> 0, by |-> "main"]>>
                        /\ pc' = "exited"
                   ELSE /\ printed' = printed \cup r.printed
                                      \cup {"failed_to_retrieve_magnet"}
                        /\ UNCHANGED <<all_results, opened, exit_status, pc>>
           ELSE /\ printed' = printed \cup {"provider_not_found"}
                /\ UNCHANGED <<all_results, opened, requests, lastCall,
                               exit_status, pc>>
    /\ UNCHANGED <<importable, i, missing_packages, imported, providers, k,
                   table>>

Next ==
    \/ CheckPackage
    \/ CheckDependenciesExit
    \/ CheckDependenciesReturn
    \/ MainImports
    \/ ArgparseError
    \/ MainStart
    \/ QueryProvider
    \/ NoResults
    \/ Display
    \/ PromptQuit
    \/ PromptInvalid
    \/ PromptSelectDirect
    \/ PromptSelect1337x

Spec == Init /\ [][Next]_vars

\* ------------------------------------------------------------------ claims

\* C2 (as stated): no operation of the program terminates the process or
\* prints; a missing dependency and a failed request are propagated to the
\* caller as an error instead.
C2_NoExitNoPrint ==
    /\ "missing_dependencies" \notin printed
    /\ exit_status # <<>> => exit_status[1].by # "check_dependencies"
    /\ lastCall.response = "request_error" =>
          (lastCall.raised /\ lastCall.printed = {})

\* C2 (amended): with a package missing, check_dependencies prints the
\* instructions and terminates the process with status 1; on a failed request
\* a provider's search or get_magnet prints an error message and returns
\* normally, raising nothing to its caller and not terminating the process, so
\* that a later exit is main finishing with status 0.
C2_PrintsAndReturns ==
    /\ (pc # "check_dependencies" /\ missing_packages # <<>>) =>
          /\ exit_status = <<[code |-> 1, by |-> "check_dependencies"]>>
          /\ "missing_dependencies" \in printed
    /\ lastCall.response = "request_error" =>
          /\ ~lastCall.raised
          /\ lastCall.printed =
                (IF lastCall.op = "search" THEN {"error_searching"}
                 ELSE {"error_fetching_magnet"})
          /\ lastCall.printed \subseteq printed
          /\ pc # "exited" \/ exit_status = <<[code |-> 0, by |-> "main"]>>

\* a search failed with a request error, the error was printed and the run
\* went on to show the other provider's results
C2_Witness ==
    /\ pc = "prompt"
    /\ lastCall.op = "search"
    /\ lastCall.response = "request_error"
    /\ "error_searching" \in printed
    /\ exit_status = <<>>

\* the outcomes of a provider call that did not hit a request error, as the
\* caller sees them
SuccessfulOutcomes(op, provider) ==
    IF op = "search"
    THEN {[ret |-> ProviderSearch(provider, resp).ret,
           link |-> None,
           raised |-> ProviderSearch(provider, resp).raised] :
             resp \in {x \in ProviderResponses(provider) :
                          x.kind # "request_error"}}
    ELSE {[ret |-> <<>>,
           link |-> get_magnet(resp).link,
           raised |-> get_magnet(resp).raised] :
             resp \in {x \in DetailResponses : x.kind # "request_error"}}

\* C3 (as stated): when search or get_magnet hits a request error, the caller
\* receives a result that no successful call could have produced, and the
\* request was issued exactly once.
C3_FailureDistinguished ==
    lastCall.response = "request_error" =>
        /\ lastCall.nreq = 1
        /\ [ret |-> lastCall.ret, link |-> lastCall.link,
            raised |-> lastCall.raised]
              \notin SuccessfulOutcomes(lastCall.op, lastCall.provider)

\* C3 (amended): no failed operation is retried, every search and get_magnet
\* call issues its request exactly once; on a request error the caller
\* receives the value of a successful empty outcome (an empty list from
\* search, None from get_magnet), the error being reported only by printing.
C3_OnceAndEmpty ==
    /\ lastCall.op # "none" => lastCall.nreq = 1
    /\ pc = "search" => Len(requests) = k - 1
    /\ lastCall.response = "request_error" =>
          /\ ~lastCall.raised
          /\ lastCall.op = "search" => lastCall.ret = <<>>
          /\ lastCall.op = "get_magnet" => lastCall.link = None
          /\ [ret |-> lastCall.ret, link |-> lastCall.link,
              raised |-> lastCall.raised]
                \in SuccessfulOutcomes(lastCall.op, lastCall.provider)

\* get_magnet hit a request error and the user is back at the prompt
C3_Witness ==
    /\ pc = "prompt"
    /\ lastCall.op = "get_magnet"
    /\ lastCall.response = "request_error"
    /\ Len(requests) = Len(providers) + 1

\* C4: check_dependencies runs first.  With a required package not found the
\* process has exited with status 1 and nothing was imported, no provider was
\* constructed and no request was issued; with all of them found the check
\* returns without exiting and the run goes on to the imports.
C4_DependencyCheckFirst ==
    /\ (imported # {} \/ providers # <<>> \/ requests # <<>>) =>
          /\ i > Len(REQUIRED_PACKAGES)
          /\ missing_packages = <<>>
          /\ ModuleNames \subseteq importable
    /\ (pc # "check_dependencies" /\ ~(ModuleNames \subseteq importable)) =>
          /\ pc = "exited"
          /\ exit_status = <<[code |-> 1, by |-> "check_dependencies"]>>
          /\ imported = {} /\ providers = <<>> /\ requests = <<>>
    /\ (pc # "check_dependencies" /\ ModuleNames \subseteq importable) =>
          /\ exit_status # <<>> => exit_status[1].by # "check_dependencies"
          /\ pc = "imports" \/ imported # {}

\* only bs4 could not be found: the process exited with beautifulsoup4 reported
C4_Witness ==
    /\ pc = "exited"
    /\ importable = ModuleNames \ {"bs4"}
    /\ missing_packages = <<"beautifulsoup4">>
    /\ exit_status = <<[code |-> 1, by |-> "check_dependencies"]>>

\* C5: the table shown after aggregation is a permutation of all aggregated
\* results, every row has at least as many seeders as the row after it, and
\* the index of a row is its 1-based position.
C5_DisplaySorted ==
    [][(pc = "search" /\ pc' = "prompt") =>
          /\ IsPermutation([n \in 1..Len(table') |-> table'[n].result],
                           all_results)
          /\ \A n \in 1..(Len(table') - 1) :
                table'[n].result.seeders >= table'[n + 1].result.seeders
          /\ \A n \in 1..Len(table') : table'[n].index = n]_vars

\* a 1337x result, aggregated after the ThePirateBay ones, is shown above a
\* ThePirateBay result with fewer seeders
C5_Witness ==
    /\ pc = "prompt"
    /\ \E a, b \in 1..Len(table) :
          /\ a < b
          /\ table[a].result.source = "1337x"
          /\ table[b].result.source = "ThePirateBay"
          /\ table[a].result.seeders > table[b].result.seeders

\* C6: what open_magnet_link is called with is a magnet link, for a 1337x
\* result the one get_magnet returned in that step, never the stored detail
\* page URL; when get_magnet returns None nothing is opened, the results are
\* unchanged and the user is prompted again.
C6_OnlyFetchedMagnetOpened ==
    [][pc = "prompt" =>
          /\ opened' # opened =>
                /\ Len(opened') = Len(opened) + 1
                /\ opened'[Len(opened')].kind = "magnet"
                /\ opened'[Len(opened')].src = "1337x" =>
                      /\ requests' = Append(requests, "detail_page")
                      /\ lastCall'.op = "get_magnet"
                      /\ opened'[Len(opened')] = lastCall'.link
          /\ (requests' # requests /\ ~lastCall'.raised
                /\ lastCall'.link = None) =>
                /\ opened' = opened
                /\ all_results' = all_results
                /\ pc' = "prompt"
                /\ exit_status' = <<>>]_vars

\* get_magnet returned None for a selected 1337x result: nothing was opened
\* and the prompt is shown again
C6_Witness ==
    /\ pc = "prompt"
    /\ prompts >= 1
    /\ lastCall.op = "get_magnet"
    /\ lastCall.link = None
    /\ opened = <<>>
    /\ \E n \in 1..Len(all_results) : all_results[n].magnet_link.kind = "detail"

====
